---- MODULE Spec2Model ----
(***************************************************************************)
(* Model of the two artist-enrichment drivers of hajde-music-stream:       *)
(*   backend/src/python/world/fetch_artists_by_country.py  (pooled, CSV)   *)
(*   backend/src/python/world_channels_ID.py               (serial, sink)  *)
(* Strings are TLA+ strings; Python's str operations are modelled          *)
(* character by character with Len, SubSeq and \o.                         *)
(* Durations are in tenths of a second.                                    *)
(***************************************************************************)
EXTENDS Integers, Sequences, FiniteSets, TLC

VARIABLES
  \* extractor harness: the URL given and what each extractor returned
  url, pyId, exId,
  \* environment: the input folder, its eligible files, the catalog's bodies
  folderExists, files, catalog,
  \* fetch_artists_by_country.main: the main thread
  pc, all_records, records, queue, future, collected, cur, results, csv,
  \* the error log file and the threads inside log_error
  errlog, inLog,
  \* pool workers running fetch_for_artist / safe_request
  wpc, wrec, attempt, reqs, backoffs, delays, data,
  \* world_channels_ID.main and the hosted sink
  run, fileIdx, rowIdx, chan, configured, sink, afterFirst, total_processed, outcomes

xvars == <<url, pyId, exId>>
evars == <<folderExists, files, catalog>>
mvars == <<pc, all_records, records, queue, future, collected, cur, results, csv>>
lvars == <<errlog, inLog>>
wvars == <<wpc, wrec, attempt, reqs, backoffs, delays, data>>
svars == <<run, fileIdx, rowIdx, chan, configured, sink, afterFirst, total_processed, outcomes>>
vars == <<xvars, evars, mvars, lvars, wvars, svars>>

(***************************************************************************)
(* Python str primitives                                                   *)
(***************************************************************************)
CharAt(s, i) == SubSeq(s, i, i)

From(s, i) == SubSeq(s, i, Len(s))

\* s.startswith(p)
StartsWith(s, p) == Len(p) <= Len(s) /\ SubSeq(s, 1, Len(p)) = p

\* s.find(sub, start): 1-based index of the first occurrence at or after
\* position from, 0 when there is none (Python's -1)
FindFrom(s, sub, from) ==
  LET hits == {i \in from..(Len(s) - Len(sub) + 1) : SubSeq(s, i, i + Len(sub) - 1) = sub}
  IN IF hits = {} THEN 0 ELSE CHOOSE i \in hits : \A j \in hits : i <= j

Find(s, sub) == FindFrom(s, sub, 1)

\* s.rfind(sub)
RFind(s, sub) ==
  LET hits == {i \in 1..(Len(s) - Len(sub) + 1) : SubSeq(s, i, i + Len(sub) - 1) = sub}
  IN IF hits = {} THEN 0 ELSE CHOOSE i \in hits : \A j \in hits : i >= j

\* sub in s
Contains(s, sub) == Find(s, sub) # 0

\* s.split(sep) for a one-character separator
RECURSIVE Split(_, _)
Split(s, sep) ==
  LET i == Find(s, sep)
  IN IF i = 0 THEN <<s>>
     ELSE <<SubSeq(s, 1, i - 1)>> \o Split(From(s, i + 1), sep)

\* s.lstrip(chars), s.rstrip(chars), s.strip(chars): chars a set of characters
RECURSIVE LStrip(_, _)
LStrip(s, chars) ==
  IF Len(s) > 0 /\ CharAt(s, 1) \in chars THEN LStrip(From(s, 2), chars) ELSE s

RECURSIVE RStrip(_, _)
RStrip(s, chars) ==
  IF Len(s) > 0 /\ CharAt(s, Len(s)) \in chars
  THEN RStrip(SubSeq(s, 1, Len(s) - 1), chars) ELSE s

Strip(s, chars) == RStrip(LStrip(s, chars), chars)

UpperAlpha == "ABCDEFGHIJKLMNOPQRSTUVWXYZ"
LowerAlpha == "abcdefghijklmnopqrstuvwxyz"
Digits == "0123456789"

CharsOf(s) == {CharAt(s, i) : i \in 1..Len(s)}

Whitespace == {" "}

LowerChar(c) ==
  LET i == Find(UpperAlpha, c) IN IF i = 0 THEN c ELSE CharAt(LowerAlpha, i)

UpperChar(c) ==
  LET i == Find(LowerAlpha, c) IN IF i = 0 THEN c ELSE CharAt(UpperAlpha, i)

\* s.lower(), s.upper()
RECURSIVE Lower(_)
Lower(s) == IF s = "" THEN "" ELSE LowerChar(CharAt(s, 1)) \o Lower(From(s, 2))

RECURSIVE Upper(_)
Upper(s) == IF s = "" THEN "" ELSE UpperChar(CharAt(s, 1)) \o Upper(From(s, 2))

(***************************************************************************)
(* urllib.parse.urlparse(url).path                                         *)
(***************************************************************************)
SchemeChars == CharsOf(UpperAlpha) \cup CharsOf(LowerAlpha) \cup CharsOf(Digits)
                 \cup {"+", "-", "."}

\* the part of the URL after "scheme:", when the prefix is a valid scheme
AfterScheme(u) ==
  LET i == Find(u, ":")
  IN IF /\ i > 1
        /\ CharAt(u, 1) \in (CharsOf(UpperAlpha) \cup CharsOf(LowerAlpha))
        /\ \A k \in 1..(i - 1) : CharAt(u, k) \in SchemeChars
     THEN From(u, i + 1) ELSE u

\* index of the first of "/", "?", "#" at or after position from; Len+1 if none
NetlocEnd(s, from) ==
  LET hits == {i \in from..Len(s) : CharAt(s, i) \in {"/", "?", "#"}}
  IN IF hits = {} THEN Len(s) + 1 ELSE CHOOSE i \in hits : \A j \in hits : i <= j

AfterNetloc(s) == IF StartsWith(s, "//") THEN From(s, NetlocEnd(s, 3)) ELSE s

BeforeChar(s, c) == LET i == Find(s, c) IN IF i = 0 THEN s ELSE SubSeq(s, 1, i - 1)

\* _splitparams: the ";params" of the last path segment are not part of the path
SplitParams(p) ==
  LET slash == RFind(p, "/")
      i == IF slash = 0 THEN Find(p, ";") ELSE FindFrom(p, ";", slash)
  IN IF i = 0 THEN p ELSE SubSeq(p, 1, i - 1)

UrlPath(u) ==
  SplitParams(BeforeChar(BeforeChar(AfterNetloc(AfterScheme(LStrip(u, Whitespace))), "#"), "?"))

(***************************************************************************)
(* The two identifier extractors                                           *)
(***************************************************************************)
IdChars == CharsOf(UpperAlpha) \cup CharsOf(LowerAlpha) \cup CharsOf(Digits) \cup {"_", "-"}

MinIdTail == 20

\* re.match(r"^UC[0-9A-Za-z_-]{20,}$", candidate)
MatchesChannelId(c) ==
  /\ StartsWith(c, "UC")
  /\ Len(c) >= 2 + MinIdTail
  /\ \A k \in 3..Len(c) : CharAt(c, k) \in IdChars

\* fetch_artists_by_country.parse_youtube_channel_id
parse_youtube_channel_id(u) ==
  IF u = "" THEN ""
  ELSE LET parts == Split(Strip(UrlPath(u), {"/"}), "/")
       IN IF /\ Len(parts) >= 2
             /\ Lower(parts[1]) = "channel"
             /\ MatchesChannelId(parts[2])
          THEN parts[2] ELSE ""

\* world_channels_ID.extract_channel_id
extract_channel_id(u) ==
  IF u = "" THEN ""
  ELSE LET parts == Split(UrlPath(u), "/")
           hits == {i \in 1..Len(parts) : parts[i] = "channel"}
           idx == CHOOSE i \in hits : \A j \in hits : i <= j
       IN IF hits # {} /\ idx + 1 <= Len(parts) THEN parts[idx + 1] ELSE ""

(***************************************************************************)
(* Bounds of the model                                                     *)
(***************************************************************************)
\* path segments per URL of the extractor harness
MaxSegs == 3
\* rows in the input folder of the loader harness
MaxRows == 3
\* entries of a relations list
MaxRels == 2
\* worker threads of the pool (MAX_WORKERS in the source is 10)
PoolWidth == 2

(***************************************************************************)
(* Values                                                                  *)
(***************************************************************************)
\* a variable not assigned yet
Unset == "<unset>"
\* pandas' missing cell
NaN == "<NaN>"

\* Optional values: None is <<>>, a value v is <<v>>
None == <<>>
Some(v) == <<v>>

MainThread == 0
Workers == 1..PoolWidth

(***************************************************************************)
(* Extractor harness: both extractors applied to one URL                   *)
(***************************************************************************)
Id24 == "UCaaaaaaaaaaaaaaaaaaaaaa"
Id22 == "UC0123456789abcdefghi_"
Id21 == "UC0123456789abcdefghi"
IdDot == "UCaaaaaaaaaaaaaaaaaaaa.a"

Segments == {"channel", "Channel", "user", "@handle", Id24, Id22, Id21, IdDot}
Origins == {"https://www.youtube.com", "https://music.youtube.com", ""}
Suffixes == {"", "/", "?v=1"}

RECURSIVE JoinPath(_)
JoinPath(segs) == IF segs = <<>> THEN "" ELSE "/" \o Head(segs) \o JoinPath(Tail(segs))

SegLists == UNION {[1..n -> Segments] : n \in 0..MaxSegs}

UrlPool == {""} \cup {o \o JoinPath(p) \o x : o \in Origins, p \in SegLists, x \in Suffixes}

ParseYoutubeChannelId ==
  /\ pyId = Unset
  /\ pyId' = parse_youtube_channel_id(url)
  /\ UNCHANGED <<url, exId, evars, mvars, lvars, wvars, svars>>

ExtractChannelId ==
  /\ exId = Unset
  /\ exId' = extract_channel_id(url)
  /\ UNCHANGED <<url, pyId, evars, mvars, lvars, wvars, svars>>

(***************************************************************************)
(* fetch_artists_by_country.load_all_artists                               *)
(***************************************************************************)
COUNTRY_NAMES ==
  ("US" :> "United States of America") @@ ("FR" :> "France") @@ ("RS" :> "Serbia")

country_full_name(code) ==
  IF code = "" THEN ""
  ELSE IF Upper(code) \in DOMAIN COUNTRY_NAMES THEN COUNTRY_NAMES[Upper(code)] ELSE code

\* str(row.get(col) or "").strip(): a missing cell is NaN, which is truthy
CellStr(v) == Strip(IF v = NaN THEN "nan" ELSE v, Whitespace)

MinMbidLen == 5

\* lines 283-284: the row is skipped
RowSkipped(row) == CellStr(row.mbid) = "" \/ Len(CellStr(row.mbid)) < MinMbidLen

\* lines 286-291
ToRecord(row) ==
  [mbid |-> CellStr(row.mbid),
   name |-> CellStr(row.name),
   country_code |-> CellStr(row.country),
   country_name |-> country_full_name(CellStr(row.country))]

RECURSIVE RowRecords(_)
RowRecords(rows) ==
  IF rows = <<>> THEN <<>>
  ELSE (IF RowSkipped(Head(rows)) THEN <<>> ELSE <<ToRecord(Head(rows))>>)
       \o RowRecords(Tail(rows))

\* lines 243-291: a file that cannot be read, or that lacks the mbid or name
\* column, is logged and skipped
RECURSIVE AllRecords(_)
AllRecords(fs) ==
  IF fs = <<>> THEN <<>>
  ELSE (IF Head(fs).kind = "ok" THEN RowRecords(Head(fs).rows) ELSE <<>>)
       \o AllRecords(Tail(fs))

LogLine(msg, key, n) == [msg |-> msg, key |-> key, n |-> n]

RECURSIVE FileErrors(_, _)
FileErrors(fs, i) ==
  IF i > Len(fs) THEN <<>>
  ELSE (IF fs[i].kind = "ok" THEN <<>> ELSE <<LogLine("file", fs[i].kind, i)>>)
       \o FileErrors(fs, i + 1)

\* unique[rec["mbid"]] = rec on a dict kept as the list of its values in key order
DictSetFirstWins(d, rec) ==
  IF \E i \in 1..Len(d) : d[i].mbid = rec.mbid THEN d ELSE Append(d, rec)

DictSet(d, rec) ==
  IF \E i \in 1..Len(d) : d[i].mbid = rec.mbid
  THEN [i \in 1..Len(d) |-> IF d[i].mbid = rec.mbid THEN rec ELSE d[i]]
  ELSE Append(d, rec)

\* lines 294-299
RECURSIVE Unique(_, _)
Unique(recs, d) ==
  IF recs = <<>> THEN d ELSE Unique(Tail(recs), DictSet(d, Head(recs)))

\* main lines 307-311 with load_all_artists lines 237-299
LoadAllArtists ==
  /\ pc = "load"
  /\ IF ~folderExists
     THEN /\ pc' = "crashed"
          /\ UNCHANGED <<all_records, records, errlog>>
     ELSE /\ all_records' = AllRecords(files)
          /\ records' = Unique(all_records', <<>>)
          /\ errlog' = errlog \o FileErrors(files, 1)
          /\ pc' = IF records' = <<>> THEN "done" ELSE "submit"
  /\ UNCHANGED <<queue, future, collected, cur, results, csv, inLog>>
  /\ UNCHANGED <<xvars, evars, wvars, svars>>

(***************************************************************************)
(* The catalog endpoint                                                    *)
(***************************************************************************)
\* what one GET can come to: a 200 with a JSON body, a 503, a timeout, a
\* network error, another non-2xx status, a 200 whose body is not JSON
HttpOutcomes == {"ok200", "busy503", "timeout", "neterror", "badstatus", "badbody"}

\* the outcomes that raise inside safe_request's try block
Raises(o) == o \in {"timeout", "neterror", "badstatus", "badbody"}

\* a JSON body: an object with its relations list (a missing "relations" key
\* reads as the empty list), JSON null, or a non-empty JSON array
Body(kind, rels) == [kind |-> kind, relations |-> rels]

\* a relation: with or without the "url" key, and url.resource ("" when absent)
Rel(hasUrl, resource) == [hasUrl |-> hasUrl, resource |-> resource]

MAX_RETRIES == 3
BUSY_BACKOFF == 20
ERROR_BACKOFF == 10

(***************************************************************************)
(* fetch_artists_by_country.fetch_for_artist, lines 200-230                *)
(***************************************************************************)
\* line 214
IsYoutubePool(resource) ==
  LET low == Lower(resource)
  IN Contains(low, "youtube.com") \/ Contains(low, "youtu.be")
       \/ Contains(low, "music.youtube.com")

\* lines 204-216: the scan loop with its break
RECURSIVE LastYoutubeUrl(_, _)
LastYoutubeUrl(rels, found) ==
  IF rels = <<>> THEN found
  ELSE IF Head(rels).hasUrl /\ Head(rels).resource # "" /\ IsYoutubePool(Head(rels).resource)
       THEN LastYoutubeUrl(Tail(rels), Head(rels).resource)
       ELSE LastYoutubeUrl(Tail(rels), found)

ScanNoBreak(rels) == LastYoutubeUrl(rels, "")

RECURSIVE FirstYoutubeUrl(_)
FirstYoutubeUrl(rels) ==
  IF rels = <<>> THEN ""
  ELSE IF ~Head(rels).hasUrl THEN FirstYoutubeUrl(Tail(rels))
  ELSE IF Head(rels).resource = "" THEN FirstYoutubeUrl(Tail(rels))
  ELSE IF IsYoutubePool(Head(rels).resource) THEN Head(rels).resource
  ELSE FirstYoutubeUrl(Tail(rels))

\* lines 223-230
Enriched(record, youtube_url) ==
  [mbid |-> record.mbid,
   name |-> record.name,
   country_code |-> record.country_code,
   country_name |-> record.country_name,
   youtube_url |-> youtube_url,
   channel_id |-> parse_youtube_channel_id(youtube_url)]

Future(state, result) == [state |-> state, result |-> result]

\* lines 200-230 on what safe_request returned: the future's final state
FetchOutcomeLost(record, d) ==
  IF d = None \/ d[1].kind = "null" THEN Future("done", None)
  ELSE IF d[1].kind # "object" THEN Future("running", None)
  ELSE LET youtube_url == FirstYoutubeUrl(d[1].relations)
       IN IF youtube_url = "" THEN Future("done", None)
          ELSE Future("done", Some(Enriched(record, youtube_url)))

FetchOutcome(record, d) ==
  IF d = None \/ d[1].kind = "null" THEN Future("done", None)
  ELSE IF d[1].kind # "object" THEN Future("raised", None)
  ELSE LET youtube_url == FirstYoutubeUrl(d[1].relations)
       IN IF youtube_url = "" THEN Future("done", None)
          ELSE Future("done", Some(Enriched(record, youtube_url)))

(***************************************************************************)
(* Pool workers: fetch_for_artist and safe_request, step by step           *)
(***************************************************************************)
\* a worker thread takes the next work item off the executor's queue
Take(t) ==
  /\ wpc[t] = "idle"
  /\ queue # <<>>
  /\ wrec' = [wrec EXCEPT ![t] = Head(queue)]
  /\ queue' = Tail(queue)
  /\ future' = [future EXCEPT ![Head(queue)] = Future("running", None)]
  /\ attempt' = [attempt EXCEPT ![t] = 1]
  /\ reqs' = [reqs EXCEPT ![t] = 0]
  /\ backoffs' = [backoffs EXCEPT ![t] = <<>>]
  /\ delays' = [delays EXCEPT ![t] = 0]
  /\ data' = [data EXCEPT ![t] = None]
  /\ wpc' = [wpc EXCEPT ![t] = "get"]
  /\ UNCHANGED <<pc, all_records, records, collected, cur, results, csv>>
  /\ UNCHANGED <<xvars, evars, lvars, svars>>

\* the for loop's next iteration, or its end (line 181, return None)
AfterAttemptOneMore(a) == IF a > MAX_RETRIES THEN "delay" ELSE "get"

AfterAttempt(a) == IF a + 1 > MAX_RETRIES THEN "delay" ELSE "get"

Backoff(kind, secs) == [kind |-> kind, secs |-> secs]

\* line 172: time.sleep(2.0 * attempt)
BusyBackoffFlat(a) == Backoff("busy", BUSY_BACKOFF)

BusyBackoff(a) == Backoff("busy", BUSY_BACKOFF * a)

\* line 179: time.sleep(1.0 * attempt)
ErrorBackoff(a) == Backoff("error", ERROR_BACKOFF * a)

\* line 198: the number of pauses fetch_for_artist makes once safe_request has
\* returned d
PausesOnlyWithData(d) == IF d = None THEN 0 ELSE 1

PausesAfterRequest(d) == 1

\* lines 162-176: one requests.get and what the try block does with it
Get(t) ==
  /\ wpc[t] = "get"
  /\ \E o \in HttpOutcomes :
       /\ reqs' = [reqs EXCEPT ![t] = @ + 1]
       /\ IF o = "busy503"
          THEN /\ backoffs' = [backoffs EXCEPT ![t] = Append(@, BusyBackoff(attempt[t]))]
               /\ attempt' = [attempt EXCEPT ![t] = @ + 1]
               /\ wpc' = [wpc EXCEPT ![t] = AfterAttempt(attempt[t])]
               /\ UNCHANGED data
          ELSE IF Raises(o)
          THEN /\ wpc' = [wpc EXCEPT ![t] = "log_open"]
               /\ UNCHANGED <<backoffs, attempt, data>>
          ELSE /\ data' = [data EXCEPT ![t] = Some(catalog[records[wrec[t]].mbid])]
               /\ wpc' = [wpc EXCEPT ![t] = "delay"]
               /\ UNCHANGED <<backoffs, attempt>>
  /\ UNCHANGED <<wrec, delays>>
  /\ UNCHANGED <<xvars, evars, mvars, lvars, svars>>

\* log_error lines 124-125: the thread opens the error log
LogOpen(t) ==
  /\ wpc[t] = "log_open"
  /\ inLog' = inLog \cup {t}
  /\ wpc' = [wpc EXCEPT ![t] = "log_close"]
  /\ UNCHANGED <<wrec, attempt, reqs, backoffs, delays, data, errlog>>
  /\ UNCHANGED <<xvars, evars, mvars, svars>>

\* log_error line 126 and the end of its with block, then line 179
LogClose(t) ==
  /\ wpc[t] = "log_close"
  /\ errlog' = Append(errlog, LogLine("http", records[wrec[t]].mbid, attempt[t]))
  /\ inLog' = inLog \ {t}
  /\ backoffs' = [backoffs EXCEPT ![t] = Append(@, ErrorBackoff(attempt[t]))]
  /\ attempt' = [attempt EXCEPT ![t] = @ + 1]
  /\ wpc' = [wpc EXCEPT ![t] = AfterAttempt(attempt[t])]
  /\ UNCHANGED <<wrec, reqs, delays, data>>
  /\ UNCHANGED <<xvars, evars, mvars, svars>>

\* fetch_for_artist lines 198-230: the pause after safe_request, then the
\* scan; the work item's future is set
FetchReturn(t) ==
  /\ wpc[t] = "delay"
  /\ delays' = [delays EXCEPT ![t] = @ + PausesAfterRequest(data[t])]
  /\ future' = [future EXCEPT ![wrec[t]] = FetchOutcome(records[wrec[t]], data[t])]
  /\ wpc' = [wpc EXCEPT ![t] = "idle"]
  /\ UNCHANGED <<wrec, attempt, reqs, backoffs, data>>
  /\ UNCHANGED <<pc, all_records, records, queue, collected, cur, results, csv>>
  /\ UNCHANGED <<xvars, evars, lvars, svars>>

(***************************************************************************)
(* fetch_artists_by_country.main: the pool, the collection loop, the CSV   *)
(***************************************************************************)
\* line 313 and line 316: every record is submitted to the executor
Submit ==
  /\ pc = "submit"
  /\ results' = <<>>
  /\ future' = [i \in 1..Len(records) |-> Future("queued", None)]
  /\ queue' = [i \in 1..Len(records) |-> i]
  /\ collected' = {}
  /\ pc' = "collect"
  /\ UNCHANGED <<all_records, records, cur, csv>>
  /\ UNCHANGED <<xvars, evars, lvars, wvars, svars>>

\* lines 318-328: as_completed hands over a finished future
CollectKeepsLast(i) ==
  /\ pc = "collect"
  /\ i \in (1..Len(records)) \ collected
  /\ future[i].state \in {"done", "raised"}
  /\ collected' = collected \cup {i}
  /\ cur' = i
  /\ IF future[i].state = "raised"
     THEN /\ pc' = "log_open"
          /\ UNCHANGED results
     ELSE /\ pc' = "collect"
          /\ results' = IF future[i].result # None
                        THEN <<future[i].result[1]>>
                        ELSE results
  /\ UNCHANGED <<all_records, records, queue, future, csv>>
  /\ UNCHANGED <<xvars, evars, lvars, wvars, svars>>

Collect(i) ==
  /\ pc = "collect"
  /\ i \in (1..Len(records)) \ collected
  /\ future[i].state \in {"done", "raised"}
  /\ collected' = collected \cup {i}
  /\ cur' = i
  /\ IF future[i].state = "raised"
     THEN /\ pc' = "log_open"
          /\ UNCHANGED results
     ELSE /\ pc' = "collect"
          /\ results' = IF future[i].result # None
                        THEN Append(results, future[i].result[1])
                        ELSE results
  /\ UNCHANGED <<all_records, records, queue, future, csv>>
  /\ UNCHANGED <<xvars, evars, lvars, wvars, svars>>

\* line 328: log_error on the main thread, lines 124-125
MainLogOpen ==
  /\ pc = "log_open"
  /\ inLog' = inLog \cup {MainThread}
  /\ pc' = "log_close"
  /\ UNCHANGED <<all_records, records, queue, future, collected, cur, results, csv, errlog>>
  /\ UNCHANGED <<xvars, evars, wvars, svars>>

\* log_error line 126 and the end of its with block
MainLogClose ==
  /\ pc = "log_close"
  /\ errlog' = Append(errlog, LogLine("future", records[cur].mbid, 0))
  /\ inLog' = inLog \ {MainThread}
  /\ pc' = "collect"
  /\ UNCHANGED <<all_records, records, queue, future, collected, cur, results, csv>>
  /\ UNCHANGED <<xvars, evars, wvars, svars>>

\* the end of the with block of line 315, every future handed over
PoolExit ==
  /\ pc = "collect"
  /\ collected = 1..Len(records)
  /\ pc' = "write"
  /\ UNCHANGED <<all_records, records, queue, future, collected, cur, results, csv>>
  /\ UNCHANGED <<xvars, evars, lvars, wvars, svars>>

\* lines 331-339: nothing to write, or the file is opened and the header written
WriteOpen ==
  /\ pc = "write"
  /\ pc' = IF results = <<>> THEN "done" ELSE "rows"
  /\ csv' = <<>>
  /\ UNCHANGED <<all_records, records, queue, future, collected, cur, results>>
  /\ UNCHANGED <<xvars, evars, lvars, wvars, svars>>

\* lines 341-348
CsvRow(r) == <<r.mbid, r.name, r.country_code, r.country_name, r.youtube_url, r.channel_id>>

\* lines 340-351: one writer.writerow, which returns or raises; nothing
\* catches what it raises
WriteRow ==
  /\ pc = "rows"
  /\ IF Len(csv) = Len(results)
     THEN /\ pc' = "done"
          /\ UNCHANGED csv
     ELSE \E ok \in BOOLEAN :
            IF ok
            THEN /\ csv' = Append(csv, CsvRow(results[Len(csv) + 1]))
                 /\ UNCHANGED pc
            ELSE /\ pc' = "crashed"
                 /\ UNCHANGED csv
  /\ UNCHANGED <<all_records, records, queue, future, collected, cur, results>>
  /\ UNCHANGED <<xvars, evars, lvars, wvars, svars>>

(***************************************************************************)
(* Inputs                                                                  *)
(***************************************************************************)
Row(mbid, name, country) == [mbid |-> mbid, name |-> name, country |-> country]
File(kind, rows) == [kind |-> kind, rows |-> rows]

Mbid1 == "a1b2c3d4e5"
Mbid2 == "mbid-0002"
Mbids == {Mbid1, Mbid2}

UrlChannel == "https://youtube.com/channel/" \o Id24
UrlMusic == "https://music.YouTube.com/channel/" \o Id22
UrlUser == "https://www.youtube.com/user/someartist"
UrlShort == "https://youtu.be/dQw4w9WgXcQ"
UrlOther == "https://open.spotify.com/artist/0k17h0D3"

\* nothing of the extractor harness, nor of the sink driver, is running
ExtractIdle == url = "" /\ pyId = "" /\ exId = ""

SinkIdle ==
  /\ run = 0 /\ fileIdx = 0 /\ rowIdx = 0 /\ chan = Unset /\ configured = FALSE
  /\ sink = <<>> /\ afterFirst = 0 /\ total_processed = 0 /\ outcomes = <<>>

WorkersIdle ==
  /\ wpc = [t \in Workers |-> "idle"]
  /\ wrec = [t \in Workers |-> 0]
  /\ attempt = [t \in Workers |-> 0]
  /\ reqs = [t \in Workers |-> 0]
  /\ backoffs = [t \in Workers |-> <<>>]
  /\ delays = [t \in Workers |-> 0]
  /\ data = [t \in Workers |-> None]

MainFresh ==
  /\ all_records = <<>> /\ records = <<>> /\ queue = <<>>
  /\ future = <<>> /\ collected = {} /\ cur = 0 /\ results = <<>> /\ csv = <<>>
  /\ errlog = <<>> /\ inLog = {}

MainAtStart == pc = "load" /\ MainFresh

\* the folders the pooled driver is run on
PoolInputs ==
  { <<File("ok", <<Row(Mbid1, "X", "US"), Row(Mbid2, "Z", "rs")>>)>>,
    <<File("ok", <<Row(Mbid1, "X", "US")>>),
      File("ok", <<Row(Mbid1, "Y", "FR"), Row(Mbid2, "Z", "rs")>>)>>,
    <<File("nocolumns", <<>>), File("ok", <<Row(NaN, "Y", "FR"), Row(Mbid1, "X", NaN)>>)>> }

Catalog(b1, b2) == (Mbid1 :> b1) @@ (Mbid2 :> b2)

\* the catalogs the drivers are run against
PoolCatalogs ==
  { Catalog(Body("object", <<Rel(TRUE, UrlChannel)>>), Body("object", <<Rel(TRUE, UrlUser)>>)),
    Catalog(Body("object", <<Rel(TRUE, UrlUser)>>), Body("object", <<Rel(TRUE, UrlChannel)>>)),
    Catalog(Body("object", <<>>), Body("array", <<>>)),
    Catalog(Body("array", <<>>), Body("object", <<Rel(TRUE, UrlChannel)>>)) }

Init ==
  /\ ExtractIdle /\ SinkIdle /\ WorkersIdle /\ MainAtStart
  /\ folderExists \in BOOLEAN
  /\ files \in PoolInputs
  /\ catalog \in PoolCatalogs

Worker(t) == Take(t) \/ Get(t) \/ LogOpen(t) \/ LogClose(t) \/ FetchReturn(t)

Next ==
  \/ LoadAllArtists
  \/ Submit
  \/ \E t \in Workers : Worker(t)
  \/ \E i \in 1..Len(records) : Collect(i)
  \/ MainLogOpen
  \/ MainLogClose
  \/ PoolExit
  \/ WriteOpen
  \/ WriteRow

Spec == Init /\ [][Next]_vars

(***************************************************************************)
(* world_channels_ID: fetch_youtube_using_mbid and supabase_insert         *)
(***************************************************************************)
\* lines 155-158: the first link with the marker decides
RECURSIVE SinkScan(_)
SinkScan(rels) ==
  IF rels = <<>> THEN ""
  ELSE LET link == IF Head(rels).hasUrl THEN Head(rels).resource ELSE ""
       IN IF Contains(link, "youtube.com") THEN extract_channel_id(link)
          ELSE SinkScan(Tail(rels))

\* lines 147-163 on the outcome o of session.get and the body the catalog holds:
\* the identifier returned, and whether the except clause logged
fetch_youtube_using_mbid(o, body) ==
  IF o # "ok200" THEN [chan |-> "", logged |-> TRUE]
  ELSE IF body.kind # "object" THEN [chan |-> "", logged |-> TRUE]
  ELSE [chan |-> SinkScan(body.relations), logged |-> FALSE]

COUNTRY_MAP == COUNTRY_NAMES

\* lines 221, 226 and 235-241
Payload(row, channel_id) ==
  LET country_code == Upper(IF row.country = NaN THEN "nan" ELSE row.country)
  IN [name |-> row.name,
      mbid |-> row.mbid,
      youtube_channel_id |-> channel_id,
      country_code |-> country_code,
      country_name |-> IF country_code \in DOMAIN COUNTRY_MAP
                       THEN COUNTRY_MAP[country_code] ELSE country_code]

\* lines 25-30 and 171: what the POST asks of the sink
PlainInsert == [prefer |-> "", on_conflict |-> ""]

UpsertRequest == [prefer |-> "resolution=ignore-duplicates", on_conflict |-> "mbid"]

\* the sink's table after a POST it accepted: with ignore-duplicates a row whose
\* conflict column matches a stored row is dropped
SinkStore(table, req, row) ==
  IF /\ req.prefer = "resolution=ignore-duplicates"
     /\ req.on_conflict = "mbid"
     /\ \E i \in 1..Len(table) : table[i].mbid = row.mbid
  THEN table ELSE Append(table, row)

\* what one POST can come to: accepted (200, 201, 204), another status, an exception
PostOutcomes == {"stored", "badstatus", "exception"}

\* the position of the serial driver in its two loops
SinkFile == files[fileIdx]
SinkRow == SinkFile.rows[rowIdx]

\* main lines 188-205
SinkStart ==
  /\ pc = "s_start"
  /\ total_processed' = 0
  /\ IF ~folderExists \/ files = <<>>
     THEN pc' = "s_done" /\ UNCHANGED <<fileIdx, rowIdx>>
     ELSE pc' = "s_file" /\ fileIdx' = 1 /\ rowIdx' = 0
  /\ UNCHANGED <<run, chan, configured, sink, afterFirst, outcomes>>
  /\ UNCHANGED <<all_records, records, queue, future, collected, cur, results, csv>>
  /\ UNCHANGED <<xvars, evars, lvars, wvars>>

\* lines 207-216, and line 248 once the files are used up
SinkOpenFile ==
  /\ pc = "s_file"
  /\ IF fileIdx > Len(files)
     THEN pc' = "s_done" /\ UNCHANGED <<fileIdx, rowIdx, errlog>>
     ELSE IF SinkFile.kind = "unreadable"
     THEN /\ errlog' = Append(errlog, LogLine("CSV READ", "unreadable", fileIdx))
          /\ fileIdx' = fileIdx + 1
          /\ UNCHANGED <<pc, rowIdx>>
     ELSE pc' = "s_row" /\ rowIdx' = 1 /\ UNCHANGED <<fileIdx, errlog>>
  /\ UNCHANGED <<run, chan, configured, sink, afterFirst, total_processed, outcomes>>
  /\ UNCHANGED <<all_records, records, queue, future, collected, cur, results, csv, inLog>>
  /\ UNCHANGED <<xvars, evars, wvars>>

\* lines 218-224: the loop over the rows ends, or the row has no identifier (a
\* file without the MBID column reads as rows without one)
SinkSkipRow ==
  /\ pc = "s_row"
  /\ IF rowIdx > Len(SinkFile.rows)
     THEN pc' = "s_file" /\ fileIdx' = fileIdx + 1 /\ UNCHANGED rowIdx
     ELSE /\ SinkFile.kind = "nocolumns" \/ SinkRow.mbid = NaN \/ SinkRow.mbid = ""
          /\ rowIdx' = rowIdx + 1
          /\ UNCHANGED <<pc, fileIdx>>
  /\ UNCHANGED <<run, chan, configured, sink, afterFirst, total_processed, outcomes>>
  /\ UNCHANGED <<all_records, records, queue, future, collected, cur, results, csv>>
  /\ UNCHANGED <<xvars, evars, lvars, wvars>>

Outcome(fetched, stored) == [fetched |-> fetched, stored |-> stored]

\* supabase_insert lines 166-180 on the outcome po of requests.post: the table
\* and the error log afterwards
supabase_insert(table, log, row, po) ==
  IF ~configured THEN [table |-> table, log |-> log]
  ELSE IF po = "stored" THEN [table |-> SinkStore(table, UpsertRequest, row), log |-> log]
  ELSE [table |-> table, log |-> Append(log, LogLine("SUPABASE", row.mbid, 0))]

\* lines 218-246 for a row that has an identifier: the lookup, the pause, and,
\* when an identifier came back, the insert
SinkProcessRow ==
  /\ pc = "s_row"
  /\ rowIdx <= Len(SinkFile.rows)
  /\ ~(SinkFile.kind = "nocolumns" \/ SinkRow.mbid = NaN \/ SinkRow.mbid = "")
  /\ \E o \in HttpOutcomes, po \in PostOutcomes :
       LET got == fetch_youtube_using_mbid(o, catalog[SinkRow.mbid])
           log1 == IF got.logged
                   THEN Append(errlog, LogLine("fetch", SinkRow.mbid, 0)) ELSE errlog
           put == supabase_insert(sink, log1, Payload(SinkRow, got.chan), po)
       IN /\ chan' = got.chan
          /\ IF got.chan = ""
             THEN /\ errlog' = log1
                  /\ outcomes' = [outcomes EXCEPT ![run] = Append(@, Outcome(o = "ok200", FALSE))]
                  /\ UNCHANGED <<sink, total_processed>>
             ELSE /\ sink' = put.table
                  /\ errlog' = put.log
                  /\ total_processed' = total_processed + 1
                  /\ outcomes' = [outcomes EXCEPT ![run] =
                                    Append(@, Outcome(o = "ok200", configured /\ po = "stored"))]
  /\ rowIdx' = rowIdx + 1
  /\ UNCHANGED <<run, fileIdx, configured, afterFirst>>
  /\ UNCHANGED <<pc, all_records, records, queue, future, collected, cur, results, csv, inLog>>
  /\ UNCHANGED <<xvars, evars, wvars>>

\* lines 252-253, a second time: the batch is run again on the same folder
SinkRerun ==
  /\ pc = "s_done"
  /\ run = 1
  /\ run' = 2
  /\ afterFirst' = Len(sink)
  /\ pc' = "s_start"
  /\ UNCHANGED <<fileIdx, rowIdx, chan, configured, sink, total_processed, outcomes>>
  /\ UNCHANGED <<all_records, records, queue, future, collected, cur, results, csv>>
  /\ UNCHANGED <<xvars, evars, lvars, wvars>>

\* the folders the serial driver is run on
SinkInputs ==
  { <<File("ok", <<Row(Mbid1, "X", "us"), Row(Mbid2, "Z", "RS")>>)>>,
    <<File("ok", <<Row(Mbid1, "X", "US")>>), File("ok", <<Row(Mbid1, "Y", "FR")>>)>>,
    <<File("unreadable", <<>>), File("nocolumns", <<Row(Mbid2, "Z", "RS")>>),
      File("ok", <<Row(NaN, "Y", "FR"), Row(Mbid1, "X", NaN)>>)>> }

InitSink ==
  /\ ExtractIdle /\ WorkersIdle /\ MainFresh
  /\ pc = "s_start"
  /\ run = 1 /\ fileIdx = 0 /\ rowIdx = 0 /\ chan = Unset
  /\ sink = <<>> /\ afterFirst = 0 /\ total_processed = 0 /\ outcomes = <<<<>>, <<>>>>
  /\ configured \in BOOLEAN
  /\ folderExists \in BOOLEAN
  /\ files \in SinkInputs
  /\ catalog \in PoolCatalogs

NextSink == SinkStart \/ SinkOpenFile \/ SinkSkipRow \/ SinkProcessRow \/ SinkRerun

SpecSink == InitSink /\ [][NextSink]_vars

(***************************************************************************)
(* Harnesses: one function applied to inputs drawn from bounded sets       *)
(***************************************************************************)
NoCatalog == Catalog(Body("object", <<>>), Body("object", <<>>))

InitExtract ==
  /\ url \in UrlPool /\ pyId = Unset /\ exId = Unset
  /\ SinkIdle /\ WorkersIdle /\ MainFresh
  /\ pc = "extract"
  /\ folderExists = TRUE /\ files = <<>> /\ catalog = NoCatalog

NextExtract == ParseYoutubeChannelId \/ ExtractChannelId

SpecExtract == InitExtract /\ [][NextExtract]_vars

LoadRows ==
  { Row(Mbid1, "X", "US"), Row(Mbid1, "Y", "fr"), Row(" a1b2c3d4e5 ", "W", NaN),
    Row(Mbid2, "Z", "RS"), Row("abc", "S", "US"), Row(NaN, "N", "US") }

RowLists == UNION {[1..n -> LoadRows] : n \in 0..MaxRows}

\* the rows spread over two readable files, with a third file between them
LoadInputs ==
  UNION { { <<File("ok", SubSeq(r, 1, k)), File(kind, <<>>), File("ok", SubSeq(r, k + 1, Len(r)))>> :
              k \in 0..Len(r), kind \in {"ok", "unreadable", "nocolumns"} } :
          r \in RowLists }

InitLoad ==
  /\ ExtractIdle /\ SinkIdle /\ WorkersIdle /\ MainAtStart
  /\ folderExists \in BOOLEAN
  /\ files \in LoadInputs
  /\ catalog = NoCatalog

NextLoad == LoadAllArtists

SpecLoad == InitLoad /\ [][NextLoad]_vars

RelPool ==
  { Rel(FALSE, ""), Rel(TRUE, ""), Rel(TRUE, UrlOther), Rel(TRUE, UrlUser),
    Rel(TRUE, UrlChannel), Rel(TRUE, UrlShort), Rel(TRUE, UrlMusic) }

RelLists == UNION {[1..n -> RelPool] : n \in 0..MaxRels}

FetchBodies ==
  {Body("null", <<>>), Body("array", <<>>)} \cup {Body("object", r) : r \in RelLists}

FetchRecord == ToRecord(Row(Mbid1, "X", "US"))

FirstWorker == 1

\* worker 1 has taken the one record of the run; the serial driver's lookup
\* of the same identifier has not been made
InitFetch ==
  /\ ExtractIdle
  /\ folderExists = TRUE
  /\ files = <<File("ok", <<Row(Mbid1, "X", "US")>>)>>
  /\ \E b \in FetchBodies : catalog = Catalog(b, b)
  /\ pc = "collect"
  /\ all_records = <<FetchRecord>> /\ records = <<FetchRecord>>
  /\ queue = <<>> /\ future = <<Future("running", None)>>
  /\ collected = {} /\ cur = 0 /\ results = <<>> /\ csv = <<>>
  /\ errlog = <<>> /\ inLog = {}
  /\ wpc = [t \in Workers |-> IF t = FirstWorker THEN "get" ELSE "idle"]
  /\ wrec = [t \in Workers |-> IF t = FirstWorker THEN 1 ELSE 0]
  /\ attempt = [t \in Workers |-> IF t = FirstWorker THEN 1 ELSE 0]
  /\ reqs = [t \in Workers |-> 0]
  /\ backoffs = [t \in Workers |-> <<>>]
  /\ delays = [t \in Workers |-> 0]
  /\ data = [t \in Workers |-> None]
  /\ run = 1 /\ fileIdx = 0 /\ rowIdx = 0 /\ chan = Unset /\ configured = FALSE
  /\ sink = <<>> /\ afterFirst = 0 /\ total_processed = 0 /\ outcomes = <<<<>>, <<>>>>

\* world_channels_ID.fetch_youtube_using_mbid called once
FetchYoutubeUsingMbid ==
  /\ chan = Unset
  /\ \E o \in HttpOutcomes :
       LET got == fetch_youtube_using_mbid(o, catalog[Mbid1])
       IN /\ chan' = got.chan
          /\ errlog' = IF got.logged
                       THEN Append(errlog, LogLine("fetch", Mbid1, 0)) ELSE errlog
          /\ outcomes' = [outcomes EXCEPT ![run] = Append(@, Outcome(o = "ok200", FALSE))]
  /\ UNCHANGED <<run, fileIdx, rowIdx, configured, sink, afterFirst, total_processed>>
  /\ UNCHANGED <<xvars, evars, mvars, inLog, wvars>>

NextFetch ==
  \/ Get(FirstWorker)
  \/ LogOpen(FirstWorker)
  \/ LogClose(FirstWorker)
  \/ FetchReturn(FirstWorker)
  \/ FetchYoutubeUsingMbid

SpecFetch == InitFetch /\ [][NextFetch]_vars

(***************************************************************************)
(* Properties                                                              *)
(***************************************************************************)

\* C1: a record reaches the results list, the CSV file or the sink only with
\* a non-empty channel identifier.
C1_OnlyWithChannelId ==
  /\ \A k \in 1..Len(results) : results[k].channel_id # ""
  /\ \A k \in 1..Len(csv) : csv[k][6] # ""
  /\ \A k \in 1..Len(sink) : sink[k].youtube_channel_id # ""

\* the segments of the URL's path
PathSegments(u) == Split(UrlPath(u), "/")

\* r is empty, or the canonical identifier that follows a "channel" segment of u
CanonicalOrEmpty(u, r) ==
  \/ r = ""
  \/ /\ MatchesChannelId(r)
     /\ \E i \in 1..(Len(PathSegments(u)) - 1) :
          PathSegments(u)[i] = "channel" /\ PathSegments(u)[i + 1] = r

\* C2: each extractor returns the empty string or the segment that follows a
\* segment equal to "channel" and is "UC" plus 20 or more identifier characters.
C2_OnlyCanonicalIds ==
  /\ pyId # Unset => CanonicalOrEmpty(url, pyId)
  /\ exId # Unset => CanonicalOrEmpty(url, exId)

\* every attempt of worker t's safe_request call so far has failed
AllAttemptsFailed(t) == Len(backoffs[t]) = reqs[t]

\* worker t's fetch_for_artist call has returned or raised
FetchEnded(t) == wpc[t] = "idle" /\ wrec[t] # 0

\* C3: one safe_request call issues at most MAX_RETRIES requests, and when all
\* of them fail it returns None: the fetch ends with no result and no exception.
C3_BoundedRetries ==
  \A t \in Workers :
    /\ reqs[t] <= MAX_RETRIES
    /\ (wpc[t] = "delay" /\ AllAttemptsFailed(t))
         => (data[t] = None /\ reqs[t] = MAX_RETRIES)
    /\ (FetchEnded(t) /\ AllAttemptsFailed(t))
         => future[wrec[t]] = Future("done", None)

\* three failed attempts of both kinds, and safe_request has returned None
C3_Witness ==
  /\ wpc[FirstWorker] = "delay"
  /\ reqs[FirstWorker] = MAX_RETRIES
  /\ data[FirstWorker] = None
  /\ {backoffs[FirstWorker][k].kind : k \in 1..Len(backoffs[FirstWorker])} = {"busy", "error"}

\* the identifiers of the loaded rows
LoadedIds == {all_records[i].mbid : i \in 1..Len(all_records)}

\* the last loaded row with identifier id
LastLoaded(id) ==
  all_records[CHOOSE i \in 1..Len(all_records) :
                /\ all_records[i].mbid = id
                /\ \A j \in 1..Len(all_records) : all_records[j].mbid = id => j <= i]

\* C4: load_all_artists returns exactly one record per distinct identifier of
\* the loaded rows, and it is the last row loaded with that identifier.
C4_LastWriteWins ==
  (pc # "load" /\ folderExists) =>
    /\ Len(records) = Cardinality(LoadedIds)
    /\ \A id \in LoadedIds :
         /\ Cardinality({k \in 1..Len(records) : records[k].mbid = id}) = 1
         /\ \A k \in 1..Len(records) : records[k].mbid = id => records[k] = LastLoaded(id)

\* two rows of different files share an identifier and differ in name and country
C4_Witness ==
  /\ pc = "submit"
  /\ files[1].rows # <<>> /\ files[3].rows # <<>>
  /\ Len(records) < Len(all_records)
  /\ \E i, j \in 1..Len(all_records) :
       /\ i < j
       /\ all_records[i].mbid = all_records[j].mbid
       /\ all_records[i].name # all_records[j].name
       /\ all_records[i].country_code # all_records[j].country_code
       /\ ToRecord(files[1].rows[1]) = all_records[i]
       /\ ToRecord(files[3].rows[Len(files[3].rows)]) = all_records[j]

\* C5 as stated: the fixed inter-request pause follows every HTTP attempt, so a
\* fetch that made k attempts has made k pauses.
C5_PausePerAttempt ==
  \A t \in Workers : FetchEnded(t) => delays[t] = reqs[t]

\* C5 as amended: the fixed pause is made once per fetch, after safe_request
\* has returned, whatever it returned and however many attempts and backoffs
\* it made; none is made between the attempts.
C5_OnePausePerFetch ==
  \A t \in Workers :
    /\ wpc[t] \in {"get", "log_open", "log_close", "delay"} => delays[t] = 0
    /\ FetchEnded(t) => delays[t] = 1

\* a fetch of three failed attempts has ended with one pause
C5_Witness ==
  /\ FetchEnded(FirstWorker)
  /\ reqs[FirstWorker] = MAX_RETRIES
  /\ Len(backoffs[FirstWorker]) = MAX_RETRIES
  /\ data[FirstWorker] = None
  /\ delays[FirstWorker] = 1

\* the pooled driver's main thread has returned or died with the folder present
PoolRunEnded == pc \in {"done", "crashed"} /\ folderExists

\* C6: a failed write of one enriched record is logged and the remaining
\* records are still written: when the run ends every collected record is in
\* the CSV file or its failure is in the error log.
C6_WriteFailureContinues ==
  PoolRunEnded =>
    \A k \in 1..Len(results) :
      \/ \E j \in 1..Len(csv) : csv[j] = CsvRow(results[k])
      \/ \E l \in 1..Len(errlog) : errlog[l].msg = "write" /\ errlog[l].key = results[k].mbid

\* C7: answered 503, 503, 200, safe_request returns the third response's data
\* after exactly three requests; the backoff after the k-th 503 is k times the
\* base, so the backoffs grow and sum to at least 2*base + 1*base.
C7_LinearBackoff ==
  \A t \in Workers :
    /\ \A k \in 1..Len(backoffs[t]) :
         backoffs[t][k].kind = "busy" => backoffs[t][k].secs = k * BUSY_BACKOFF
    /\ ( /\ wpc[t] = "delay"
         /\ data[t] # None
         /\ Len(backoffs[t]) = 2
         /\ \A k \in 1..2 : backoffs[t][k].kind = "busy" )
       => /\ reqs[t] = 3
          /\ data[t] = Some(catalog[records[wrec[t]].mbid])
          /\ backoffs[t][1].secs < backoffs[t][2].secs
          /\ backoffs[t][1].secs + backoffs[t][2].secs >= 2 * BUSY_BACKOFF + 1 * BUSY_BACKOFF

\* 503, 503, 200 has happened
C7_Witness ==
  /\ wpc[FirstWorker] = "delay"
  /\ reqs[FirstWorker] = 3
  /\ data[FirstWorker] # None
  /\ backoffs[FirstWorker] = <<Backoff("busy", 20), Backoff("busy", 40)>>

Min(S) == CHOOSE i \in S : \A j \in S : i <= j

\* the entries of a relations list whose resource URL carries the driver's marker
PoolMatches(rels) == {i \in 1..Len(rels) : rels[i].hasUrl /\ IsYoutubePool(rels[i].resource)}
SinkMatches(rels) ==
  {i \in 1..Len(rels) : rels[i].hasUrl /\ Contains(rels[i].resource, "youtube.com")}

\* C8: the outcome of a fetch is decided by the first entry, in list order,
\* whose resource URL carries the marker, and by that URL alone; with no such
\* entry the outcome is the empty one a transport failure gives.
C8_FirstMatchWins ==
  /\ \A t \in Workers :
       FetchEnded(t) =>
         IF data[t] = None THEN future[wrec[t]] = Future("done", None)
         ELSE data[t][1].kind = "object" =>
                LET rels == data[t][1].relations
                    m == PoolMatches(rels)
                IN IF m = {} THEN future[wrec[t]] = Future("done", None)
                   ELSE /\ future[wrec[t]].state = "done"
                        /\ future[wrec[t]].result # None
                        /\ future[wrec[t]].result[1].youtube_url = rels[Min(m)].resource
                        /\ future[wrec[t]].result[1].channel_id =
                             parse_youtube_channel_id(rels[Min(m)].resource)
  /\ (chan # Unset /\ pc = "collect") =>
       LET body == catalog[Mbid1]
           m == SinkMatches(body.relations)
       IN IF outcomes[run][1].fetched /\ body.kind = "object" /\ m # {}
          THEN chan = extract_channel_id(body.relations[Min(m)].resource)
          ELSE chan = ""

\* a user-alias URL comes before a canonical channel URL: both fetches end
\* with no identifier
C8_Witness ==
  /\ FetchEnded(FirstWorker)
  /\ data[FirstWorker] = Some(Body("object", <<Rel(TRUE, UrlUser), Rel(TRUE, UrlChannel)>>))
  /\ future[1].result # None
  /\ future[1].result[1].youtube_url = UrlUser
  /\ future[1].result[1].channel_id = ""
  /\ outcomes[run] # <<>> /\ outcomes[run][1].fetched
  /\ chan = ""

\* C9 as stated: after the second run of the batch on the same input the sink
\* has as many rows as after the first run.
C9_SameRowCount ==
  (pc = "s_done" /\ run = 2) => Len(sink) = afterFirst

\* C9 as amended: the sink never holds two rows for one identifier and the
\* second run removes none; when every lookup and every write of the second
\* run comes out as it did in the first, the row count is the same.
C9_SameRowCountSameOutcomes ==
  /\ \A i, j \in 1..Len(sink) : sink[i].mbid = sink[j].mbid => i = j
  /\ run = 2 => Len(sink) >= afterFirst
  /\ (pc = "s_done" /\ run = 2 /\ outcomes[1] = outcomes[2]) => Len(sink) = afterFirst

\* the second run has written the rows of the first run again
C9_Witness ==
  /\ pc = "s_done" /\ run = 2
  /\ outcomes[1] = outcomes[2]
  /\ Len(outcomes[2]) = 2
  /\ \A k \in 1..2 : outcomes[2][k].stored
  /\ afterFirst >= 1
  /\ Len(sink) = afterFirst

\* C10: no two threads are inside log_error's open-write-close at the same
\* time (the results list is appended to by the main thread alone).
C10_LogAppendExclusive == Cardinality(inLog) <= 1

\* the identifiers of the rows the serial driver does not skip (lines 207-224)
SinkIds ==
  UNION { { files[f].rows[k].mbid :
              k \in { j \in DOMAIN files[f].rows : files[f].rows[j].mbid \notin {NaN, ""} } } :
          f \in { g \in DOMAIN files : files[g].kind = "ok" } }

\* C11: in one run no identifier is handed to the enricher more than once: the
\* lookups of a run of the serial driver are no more than the distinct
\* identifiers that survive its row filter, even when several rows carry one
\* identifier.
C11_EachIdFetchedOnce ==
  \A r \in 1..Len(outcomes) : Len(outcomes[r]) <= Cardinality(SinkIds)

\* WF_vars(FetchReturn(t)) written out: the action is enabled exactly when the
\* worker stands after safe_request (wpc[t] = "delay"), its other conjuncts being
\* assignments
FetchReturnFair(t) == []<>(wpc[t] # "delay") \/ []<><<FetchReturn(t)>>_vars

\* the threads of the pooled driver keep running: a requests.get returns or
\* times out (timeout=REQUEST_TIMEOUT, line 167), a sleep ends, an idle worker
\* of the executor takes queued work, as_completed hands over a finished future
Fairness ==
  /\ WF_vars(LoadAllArtists)
  /\ WF_vars(Submit)
  /\ WF_vars(\E i \in 1..Len(records) : Collect(i))
  /\ WF_vars(MainLogOpen)
  /\ WF_vars(MainLogClose)
  /\ WF_vars(PoolExit)
  /\ \A t \in Workers :
       /\ WF_vars(Take(t))
       /\ WF_vars(Get(t))
       /\ WF_vars(LogOpen(t))
       /\ WF_vars(LogClose(t))
       /\ FetchReturnFair(t)

\* a folder of two records against catalogs where a lookup finds a channel,
\* finds nothing, or gets a body that makes fetch_for_artist raise
LiveInputs == { <<File("ok", <<Row(Mbid1, "X", "US"), Row(Mbid2, "Z", "rs")>>)>> }

LiveCatalogs ==
  { Catalog(Body("object", <<>>), Body("array", <<>>)),
    Catalog(Body("array", <<>>), Body("object", <<Rel(TRUE, UrlChannel)>>)) }

InitLive ==
  /\ ExtractIdle /\ SinkIdle /\ WorkersIdle /\ MainAtStart
  /\ folderExists = TRUE
  /\ files \in LiveInputs
  /\ catalog \in LiveCatalogs

FairSpec == InitLive /\ [][Next]_vars /\ Fairness

\* the future of work item i is finished: fetch_for_artist returned or raised
Terminal(i) == i \in DOMAIN future /\ future[i].state \in {"done", "raised"}

\* C12: once the records are dispatched and the main thread is in the
\* collection loop, the driver comes to the persistence step with every
\* dispatched record at a terminal outcome, whatever the other records came to.
C12_EveryRecordEnds ==
  (pc = "collect") ~> (pc = "write" /\ \A i \in 1..Len(records) : Terminal(i))

\* the collection loop is left although one record's fetch raised inside its
\* worker, and the other record was enriched
C12_Witness ==
  /\ pc = "write"
  /\ Len(future) = 2
  /\ future[1].state = "raised"
  /\ future[2].state = "done" /\ future[2].result # None
  /\ Len(results) = 1

\* the work items whose fetch_for_artist returned a record
NonEmpty == { i \in DOMAIN future : future[i].result # None }

\* the places of the output list that hold the outcome of work item i
EntriesOf(i) == { k \in DOMAIN results : results[k].mbid = records[i].mbid }

\* C13: when the collection loop has ended, the output list holds the outcome
\* of each work item that returned a record, once, and nothing else; the entry
\* has the identifier, name and country of the record that was submitted.
C13_OutputIsTheNonEmptyOutcomes ==
  pc = "write" =>
    /\ Len(results) = Cardinality(NonEmpty)
    /\ \A i \in DOMAIN future :
         IF i \in NonEmpty
         THEN /\ Cardinality(EntriesOf(i)) = 1
              /\ \A k \in EntriesOf(i) :
                   /\ results[k] = future[i].result[1]
                   /\ results[k].name = records[i].name
                   /\ results[k].country_code = records[i].country_code
                   /\ results[k].country_name = records[i].country_name
         ELSE EntriesOf(i) = {}

\* both records were enriched and the second one finished, and was collected,
\* first
C13_Witness ==
  /\ pc = "write"
  /\ Len(records) = 2 /\ Len(results) = 2
  /\ results[1].mbid = records[2].mbid
  /\ results[2].mbid = records[1].mbid
  /\ results[1].name # results[2].name

====
